---- MODULE Spec2Model ----
(***************************************************************************)
(* Request-interception worker of the WiFi captive portal (revision v5):   *)
(* request classification, per-class response strategies, the two          *)
(* versioned cache stores, and the install / activate / message lifecycle. *)
(* Strings the code inspects character by character (paths, host names,   *)
(* protocols, Accept headers) are sequences of one-character strings.      *)
(***************************************************************************)
EXTENDS Integers, Sequences, FiniteSets, TLC

(* ---------------------------------------------------------------- bounds *)
\* number of fetch events the platform dispatches in one run
MaxTasks == 2
\* number of times the install event is dispatched
MaxInstalls == 2
\* number of message events the hosting page posts
MaxMessages == 1
MaxInFlight == 2
MaxRefs == 3

(* ------------------------------------------------------- string helpers *)
\* String.prototype.startsWith
StartsWith(str, p) ==
  /\ Len(p) <= Len(str)
  /\ SubSeq(str, 1, Len(p)) = p

\* String.prototype.endsWith
EndsWith(str, suf) ==
  /\ Len(suf) <= Len(str)
  /\ SubSeq(str, Len(str) - Len(suf) + 1, Len(str)) = suf

\* String.prototype.includes
Includes(str, sub) ==
  \E i \in 0..(Len(str) - Len(sub)) : SubSeq(str, i + 1, i + Len(sub)) = sub

(* ------------------------------------------------ constants of the code *)
CACHE_NAME == "wifi-portal-v5"
RUNTIME_CACHE == "wifi-portal-runtime-v5"

PathRoot == <<"/">>
PathIndexHtml == <<"/", "i", "n", "d", "e", "x", ".", "h", "t", "m", "l">>

\* manifest seeded at install time
STATIC_ASSETS == <<PathRoot, PathIndexHtml>>

hotspotPaths == { <<"/", "l", "o", "g", "i", "n">>,
                  <<"/", "l", "o", "g", "o", "u", "t">>,
                  <<"/", "s", "t", "a", "t", "u", "s">> }

hotspotParams == { "dst", "link-login", "link-orig", "link-logout", "mac", "id",
                   "username", "client-mac-address" }

probeHosts == { <<"m", "s", "f", "t", "c", "o", "n", "n", "e", "c", "t", "t", "e", "s", "t", ".", "c", "o", "m">>,
                <<"m", "s", "f", "t", "n", "c", "s", "i", ".", "c", "o", "m">>,
                <<"c", "a", "p", "t", "i", "v", "e", ".", "a", "p", "p", "l", "e", ".", "c", "o", "m">>,
                <<"c", "o", "n", "n", "e", "c", "t", "i", "v", "i", "t", "y", "c", "h", "e", "c", "k", ".", "g", "s", "t", "a", "t", "i", "c", ".", "c", "o", "m">>,
                <<"c", "o", "n", "n", "e", "c", "t", "i", "v", "i", "t", "y", "c", "h", "e", "c", "k", ".", "a", "n", "d", "r", "o", "i", "d", ".", "c", "o", "m">>,
                <<"c", "l", "i", "e", "n", "t", "s", "3", ".", "g", "o", "o", "g", "l", "e", ".", "c", "o", "m">>,
                <<"d", "e", "t", "e", "c", "t", "p", "o", "r", "t", "a", "l", ".", "f", "i", "r", "e", "f", "o", "x", ".", "c", "o", "m">> }

ApiPrefix == <<"/", "a", "p", "i", "/">>
AssetsPrefix == <<"/", "a", "s", "s", "e", "t", "s", "/">>
HttpPrefix == <<"h", "t", "t", "p">>
HtmlSuffix == <<".", "h", "t", "m", "l">>
TextHtml == <<"t", "e", "x", "t", "/", "h", "t", "m", "l">>

\* alternatives of the static-asset regular expression, each anchored at the end
staticExtensions == { <<".", "j", "s">>,
                      <<".", "c", "s", "s">>,
                      <<".", "p", "n", "g">>,
                      <<".", "j", "p", "g">>,
                      <<".", "j", "p", "e", "g">>,
                      <<".", "s", "v", "g">>,
                      <<".", "g", "i", "f">>,
                      <<".", "w", "e", "b", "p">>,
                      <<".", "w", "o", "f", "f">>,
                      <<".", "w", "o", "f", "f", "2">>,
                      <<".", "t", "t", "f">>,
                      <<".", "e", "o", "t">>,
                      <<".", "i", "c", "o">> }

(* ------------------------------------------------------- classification *)
\* variant: the login paths matched as prefixes instead of exactly
isHotspotURLMutPrefix(url) ==
  LET isHotspotPath == \E p \in hotspotPaths : StartsWith(url.pathname, p)
      hasHotspotParam == \E p \in hotspotParams : p \in url.searchParams
  IN  isHotspotPath \/ hasHotspotParam

isHotspotURL(url) ==
  LET isHotspotPath == url.pathname \in hotspotPaths
      hasHotspotParam == \E p \in hotspotParams : p \in url.searchParams
  IN  isHotspotPath \/ hasHotspotParam

isCaptiveProbe(url) ==
  \E host \in probeHosts : Includes(url.hostname, host)

isApiCall(url) == StartsWith(url.pathname, ApiPrefix)

isStaticAsset(url) ==
  \/ \E e \in staticExtensions : EndsWith(url.pathname, e)
  \/ StartsWith(url.pathname, AssetsPrefix)

\* request.headers.get('accept'): null when the header is absent
HeaderValue(value) == [present |-> TRUE, value |-> value]
NullHeader == [present |-> FALSE, value |-> << >>]

\* a header left out of a Response init
NoHeader == "no-header"

isHtmlRequest(request) ==
  \/ (request.accept.present /\ Includes(request.accept.value, TextHtml))
  \/ request.url.pathname = PathRoot
  \/ EndsWith(request.url.pathname, HtmlSuffix)

\* variant: the protocol guard is missing
isIgnoredMutMethodOnly(request) == request.method # "GET"

isIgnored(request) ==
  \/ request.method # "GET"
  \/ ~StartsWith(request.url.protocol, HttpPrefix)

(* ------------------------------------------------------ request inputs *)
ProtoHttp == <<"h", "t", "t", "p", ":">>
ProtoHttps == <<"h", "t", "t", "p", "s", ":">>
ProtoExtension == <<"c", "h", "r", "o", "m", "e", "-", "e", "x", "t", "e", "n", "s", "i", "o", "n", ":">>
HostPortal == <<"w", "i", "f", "i", ".", "l", "a", "n">>
HostApple == <<"c", "a", "p", "t", "i", "v", "e", ".", "a", "p", "p", "l", "e", ".", "c", "o", "m">>
HostWwwMsft == <<"w", "w", "w", ".", "m", "s", "f", "t", "c", "o", "n", "n", "e", "c", "t", "t", "e", "s", "t", ".", "c", "o", "m">>
PathLogin == <<"/", "l", "o", "g", "i", "n">>
PathStatus == <<"/", "s", "t", "a", "t", "u", "s">>
PathLoginHtml == <<"/", "l", "o", "g", "i", "n", ".", "h", "t", "m", "l">>
PathApiX == <<"/", "a", "p", "i", "/", "x">>
PathApiBare == <<"/", "a", "p", "i">>
PathAssetJs == <<"/", "a", "s", "s", "e", "t", "s", "/", "a", ".", "j", "s">>
PathAssetBare == <<"/", "a", "s", "s", "e", "t", "s", "/", "a">>
PathLogoIco == <<"/", "l", "o", "g", "o", ".", "i", "c", "o">>
PathData == <<"/", "d", "a", "t", "a">>
AcceptHtml == <<"t", "e", "x", "t", "/", "h", "t", "m", "l", ",", "*", "/", "*">>
AcceptAny == <<"*", "/", "*">>

Url(protocol, hostname, pathname, searchParams) ==
  [protocol |-> protocol, hostname |-> hostname, pathname |-> pathname,
   searchParams |-> searchParams]

Request(method, url, accept) == [method |-> method, url |-> url, accept |-> accept]

Methods == {"GET", "POST"}
Protocols == {ProtoHttp, ProtoHttps, ProtoExtension}
Hostnames == {HostPortal, HostApple, HostWwwMsft}
Pathnames == {PathRoot, PathIndexHtml, PathLogin, PathStatus, PathLoginHtml, PathApiX,
              PathApiBare, PathAssetJs, PathAssetBare, PathLogoIco, PathData}
ParamSets == {{}, {"dst"}, {"id"}, {"utm_source"}}
Accepts == {NullHeader, HeaderValue(AcceptHtml), HeaderValue(AcceptAny)}

\* every request shape the classifier is exercised on
AllRequests ==
  { Request(m, Url(pr, h, p, q), a) :
      m \in Methods, pr \in Protocols, h \in Hostnames, p \in Pathnames,
      q \in ParamSets, a \in Accepts }

\* the requests the strategies are exercised on: at least one per class, and
\* API and probe requests that carry a login parameter
Requests ==
  { Request("POST", Url(ProtoHttp, HostPortal, PathApiX, {}), HeaderValue(AcceptAny)),
    Request("GET", Url(ProtoHttp, HostPortal, PathLogin, {"dst"}), HeaderValue(AcceptHtml)),
    Request("GET", Url(ProtoHttp, HostApple, PathRoot, {}), HeaderValue(AcceptAny)),
    Request("GET", Url(ProtoHttp, HostPortal, PathApiX, {}), HeaderValue(AcceptAny)),
    Request("GET", Url(ProtoHttp, HostPortal, PathApiX, {"id"}), HeaderValue(AcceptAny)),
    Request("GET", Url(ProtoHttp, HostApple, PathRoot, {"id"}), HeaderValue(AcceptAny)),
    Request("GET", Url(ProtoHttp, HostPortal, PathAssetJs, {}), HeaderValue(AcceptAny)),
    Request("GET", Url(ProtoHttp, HostPortal, PathRoot, {}), HeaderValue(AcceptHtml)),
    Request("GET", Url(ProtoHttp, HostPortal, PathIndexHtml, {}), HeaderValue(AcceptHtml)),
    Request("GET", Url(ProtoHttp, HostPortal, PathData, {}), NullHeader) }

\* the requests fetch events carry while messages are handled: one for the
\* login class and one for each class that writes the runtime store
ServingRequests ==
  { Request("GET", Url(ProtoHttp, HostPortal, PathLogin, {"dst"}), HeaderValue(AcceptHtml)),
    Request("GET", Url(ProtoHttp, HostPortal, PathAssetJs, {}), HeaderValue(AcceptAny)),
    Request("GET", Url(ProtoHttp, HostPortal, PathRoot, {}), HeaderValue(AcceptHtml)),
    Request("GET", Url(ProtoHttp, HostPortal, PathData, {}), NullHeader) }

(* ------------------------------------------------------------ responses *)
NoResponse == [origin |-> "none"]

\* statuses a network fetch may resolve with
NetStatuses == {200, 404}

\* outcomes of fetching one manifest asset at install time: a network error (0),
\* 200, another ok status, an error status
SeedOutcomes == {0, 200, 204, 404}

\* response.url of a response built by the worker itself: the empty string
NoUrl == Url(<< >>, << >>, << >>, {})

\* a response produced by the network for the fetch of `url` issued by `tag`;
\* response.url names the document it carries
NetworkResponse(status, tag, url) ==
  [origin |-> "network", status |-> status, body |-> "server-body",
   contentType |-> "server-type", cacheControl |-> "server", tag |-> tag,
   store |-> "-", url |-> url]

\* new Response(body, { status, headers }): a string body without an explicit
\* Content-Type header gets text/plain;charset=UTF-8
Response(body, status, contentType, cacheControl) ==
  [origin |-> "synth", status |-> status, body |-> body,
   contentType |-> IF contentType = NoHeader THEN "text/plain;charset=UTF-8"
                   ELSE contentType,
   cacheControl |-> cacheControl, tag |-> 0, store |-> "-", url |-> NoUrl]

(* --------------------------------------------------------- cache storage *)
\* the worker's own origin: relative URLs given to the cache resolve against it
OriginUrl(pathname) == Url(ProtoHttp, HostPortal, pathname, {})

EmptyEntries == [k \in {} |-> NoResponse]

\* caches.keys(): store names in creation order
CacheKeys(c) == [i \in 1..Len(c) |-> c[i].name]

CacheHas(c, name) == \E i \in 1..Len(c) : c[i].name = name

\* caches.open(name): creates the store when it does not exist
CacheOpen(c, name) ==
  IF CacheHas(c, name) THEN c
  ELSE Append(c, [name |-> name, entries |-> EmptyEntries])

\* variant: put keeps the entry a key already has
CachePutMutKeepFirst(c, name, key, response) ==
  [i \in 1..Len(c) |->
     IF c[i].name = name
     THEN [name |-> name,
           entries |-> [k \in DOMAIN c[i].entries \cup {key} |->
                          IF k \in DOMAIN c[i].entries THEN c[i].entries[k]
                          ELSE response]]
     ELSE c[i]]

\* cache.put(key, response) on the store called name: overwrite by key
CachePut(c, name, key, response) ==
  [i \in 1..Len(c) |->
     IF c[i].name = name
     THEN [name |-> name,
           entries |-> [k \in DOMAIN c[i].entries \cup {key} |->
                          IF k = key THEN response ELSE c[i].entries[k]]]
     ELSE c[i]]

\* caches.delete(name)
CacheDelete(c, name) == SelectSeq(c, LAMBDA st : st.name # name)

\* caches.match(key): the first store, in creation order, holding the key
CachesMatch(c, key) ==
  LET hits == { i \in 1..Len(c) : key \in DOMAIN c[i].entries }
  IN  IF hits = {} THEN [found |-> FALSE, response |-> NoResponse]
      ELSE LET i == CHOOSE j \in hits : \A k \in hits : j <= k
           IN  [found |-> TRUE,
                response |-> [c[i].entries[key] EXCEPT !.origin = "cache",
                                                       !.store = c[i].name]]

(* --------------------------------------------------- the fetch listener *)
\* variant: the API test placed before the hotspot test
BranchOrderMutApiFirst == <<"api", "hotspot", "probe", "static", "html", "default">>

\* the branches of the listener in the order the code tests them
BranchOrder == <<"hotspot", "probe", "api", "static", "html", "default">>

\* the condition guarding each branch; the last one is unconditional
BranchMatches(branch, request) ==
  CASE branch = "hotspot" -> isHotspotURL(request.url)
    [] branch = "probe"   -> isCaptiveProbe(request.url)
    [] branch = "api"     -> isApiCall(request.url)
    [] branch = "static"  -> isStaticAsset(request.url)
    [] branch = "html"    -> isHtmlRequest(request)
    [] OTHER              -> TRUE

\* variant: the return after the hotspot branch is missing
BranchReturnsMutFallThrough(branch) == branch # "hotspot"

\* each conditional branch ends with a return statement
BranchReturns(branch) == TRUE

RECURSIVE WalkBranches(_, _)
WalkBranches(i, request) ==
  IF i > Len(BranchOrder) THEN << >>
  ELSE IF BranchMatches(BranchOrder[i], request)
       THEN IF BranchReturns(BranchOrder[i])
            THEN << BranchOrder[i] >>
            ELSE << BranchOrder[i] >> \o WalkBranches(i + 1, request)
       ELSE WalkBranches(i + 1, request)

\* the branches that call event.respondWith for a request, in call order
RespondWithCalls(request) ==
  IF isIgnored(request) THEN << >> ELSE WalkBranches(1, request)

(* -------------------------------------------------- response strategies *)
Body(kind, text) == [kind |-> kind, text |-> text]

LoadingPage ==
  Response(Body("html", "Loading WiFi Portal"), 200, "text/html; charset=utf-8",
           "no-cache, no-store, must-revalidate")

\* variant: the hotspot catch handler answers with the loading page without
\* looking at the lookup result (as the second revision of the worker did)
HotspotFallbackMutNoCache(cached) == LoadingPage

\* 1. hotspot: after a failed fetch, the cached index document or a loading page
HotspotFallback(cached) ==
  IF cached.found THEN cached.response ELSE LoadingPage

\* variant: the probe fallback answers with the default status
ProbeFallbackMutOk == Response(Body("text", ""), 200, NoHeader, NoHeader)

\* 2. probe: after a failed fetch, an empty 503
ProbeFallback == Response(Body("text", ""), 503, NoHeader, NoHeader)

\* variant: the API envelope is built without the headers option
ApiFallbackMutNoHeader ==
  Response([kind |-> "json", success |-> FALSE,
            error |-> "Cannot connect to backend server"],
           503, NoHeader, NoHeader)

\* 3. API: after a failed fetch, a JSON error envelope
ApiFallback ==
  Response([kind |-> "json", success |-> FALSE,
            error |-> "Cannot connect to backend server"],
           503, "application/json", NoHeader)

\* 4. static: after a cache miss and a failed fetch
StaticFallback == Response(Body("text", "Asset unavailable"), 503, NoHeader, NoHeader)

\* variant: the HTML catch handler ends in the offline page without using the
\* lookup of '/index.html'
HtmlFallbackMutOffline(cached) ==
  Response(Body("html", "Offline"), 200, "text/html", NoHeader)

\* 5. HTML: last alternative after the two cache lookups
HtmlFallback(cached) ==
  IF cached.found THEN cached.response
  ELSE Response(Body("html", "Offline"), 200, "text/html", NoHeader)

\* variant: the default branch returns the lookup result without the 503 alternative
DefaultFallbackMutUndefined(cached) == cached.response

\* variant: the default catch handler ends in the offline page of the HTML branch
DefaultFallbackMutOfflinePage(cached) ==
  IF cached.found THEN cached.response
  ELSE Response(Body("html", "Offline"), 200, "text/html", NoHeader)

\* 6. default: the cached match or an empty 503
DefaultFallback(cached) ==
  IF cached.found THEN cached.response
  ELSE Response(Body("text", ""), 503, NoHeader, NoHeader)

\* variant: the hotspot branch clones successful responses like the HTML branch
ShouldCacheMutHotspot(branch, response) ==
  /\ branch \in {"hotspot", "static", "html", "default"}
  /\ response.status = 200

\* variant: the status test is left out of the caching condition
ShouldCacheMutAnyStatus(branch, response) ==
  branch \in {"static", "html", "default"}

\* the branches that clone a network response into the runtime store
ShouldCache(branch, response) ==
  /\ branch \in {"static", "html", "default"}
  /\ response.status = 200

(* ---------------------------------------------------------------- state *)
VARIABLES
  caches,            \* cache storage: sequence of [name, entries] in creation order
  task,              \* one record per fetch event; fetchRank: position of its
                     \* fetch among the fetches that resolved (0: not resolved)
  answered,          \* URLs a static-asset request was answered for from the network with 200
  install,           \* progress of the install handler; skipWaiting: it called self.skipWaiting()
  activate,          \* progress of the activate handler; logged: names of the 'Deleting old cache' lines
  message,           \* progress of the message handler; data: event.data of the last message
  skipWaitingCalls,  \* number of self.skipWaiting() calls
  errorLog,          \* number of console.error lines written by lifecycle handlers
  poll,              \* the portal page: M-Pesa status polling of pollPaymentStatus
  gen                \* the build: a run of the generate-sw-assets script

vars == <<caches, task, answered, install, activate, message, skipWaitingCalls, errorLog,
          poll, gen>>

\* the variables of the service worker
worker == <<caches, task, answered, install, activate, message, skipWaitingCalls, errorLog>>

\* the portal page before any payment was started
IdlePoll ==
  [pollingIntervalRef |-> FALSE, currentPollCount |-> 0, isProcessing |-> FALSE,
   inFlight |-> 0, paymentStatus |-> "idle", message |-> "", autoLogin |-> 0,
   reset |-> FALSE]

\* no run of the generator
NoGen ==
  [pc |-> "none", indexHtml |-> << >>, assets |-> << >>, swContent |-> << >>,
   swFile |-> << >>]

Tasks == 1..MaxTasks

NoRequest == [method |-> "none"]

\* no message event handled yet
NoData == "none"

IdleTask ==
  [req |-> NoRequest, branch |-> "none", pc |-> "idle", respondWith |-> 0,
   result |-> NoResponse, netFetches |-> 0, cacheReads |-> 0, cacheWrites |-> 0,
   wpc |-> "none", orphan |-> FALSE, afterAnswered |-> FALSE, fetchRank |-> 0,
   runtime |-> RUNTIME_CACHE]

\* stores left behind by the superseded worker revision
OldStaticStore ==
  [name |-> "wifi-portal-v4",
   entries |-> [k \in {OriginUrl(PathIndexHtml)} |-> NetworkResponse(200, 0, k)]]

OldRuntimeStore == [name |-> "wifi-portal-runtime-v4", entries |-> EmptyEntries]

\* the static store as a successful install leaves it
SeededStaticStore ==
  [name |-> CACHE_NAME,
   entries |-> [k \in {OriginUrl(PathRoot), OriginUrl(PathIndexHtml)} |->
                  NetworkResponse(200, 0, k)]]

\* the static store as install leaves it when the server answered the seeding
\* fetches with 204, an ok status cache.addAll accepts
SeededNoContentStore ==
  [name |-> CACHE_NAME,
   entries |-> [k \in {OriginUrl(PathRoot), OriginUrl(PathIndexHtml)} |->
                  NetworkResponse(204, 0, k)]]

\* storages found when the worker script is first evaluated
InitialStorages ==
  { << >>, << OldStaticStore >>, << OldRuntimeStore >>,
    << OldStaticStore, OldRuntimeStore >> }

\* a fetch event of the superseded revision still in flight: its static
\* branch missed the caches and waits for fetch(request)
OldHandler ==
  [IdleTask EXCEPT !.req = Request("GET", OriginUrl(PathAssetJs), NullHeader),
                   !.branch = "static", !.pc = "fetch", !.respondWith = 1,
                   !.cacheReads = 1, !.runtime = OldRuntimeStore.name]

\* the worker right after evaluation of the script, before any event
InitLifecycle ==
  /\ caches \in InitialStorages
  /\ task = [t \in Tasks |-> IdleTask]
  /\ answered = {}
  /\ install = [pc |-> "idle", runs |-> 0, orphan |-> FALSE, skipWaiting |-> FALSE]
  /\ activate = [pc |-> "idle", pending |-> {}, logged |-> {}, claimed |-> FALSE]
  /\ message = [pc |-> "idle", pending |-> {}, count |-> 0, data |-> NoData]
  /\ skipWaitingCalls = 0
  /\ errorLog = 0
  /\ poll = IdlePoll
  /\ gen = NoGen

\* storages an activated worker starts serving with: nothing seeded (install
\* failed), the seeded static store, a stale store that activation failed
\* to delete next to the seeded one, and a static store seeded with 204s
ServingStorages ==
  { << >>, << SeededStaticStore >>, << OldStaticStore, SeededStaticStore >>,
    << SeededNoContentStore >> }

\* the activated worker, before the first fetch or message event; a worker
\* whose activation rejected is activated all the same
Init ==
  /\ caches \in ServingStorages
  /\ task = [t \in Tasks |-> IdleTask]
  /\ answered = {}
  /\ install = [pc |-> "resolved", runs |-> 1, orphan |-> FALSE,
                skipWaiting |-> CacheHas(caches, CACHE_NAME)]
  /\ activate = [pc |-> IF CacheHas(caches, "wifi-portal-v4")
                        THEN "rejected" ELSE "resolved",
                 pending |-> {},
                 logged |-> IF CacheHas(caches, "wifi-portal-v4")
                            THEN {"wifi-portal-v4"} ELSE {},
                 claimed |-> ~CacheHas(caches, "wifi-portal-v4")]
  /\ message = [pc |-> "idle", pending |-> {}, count |-> 0, data |-> NoData]
  /\ skipWaitingCalls = (IF CacheHas(caches, CACHE_NAME) THEN 1 ELSE 0)
  /\ errorLog = 0
  /\ poll = IdlePoll
  /\ gen = NoGen


(* ------------------------------------------------------------ lifecycle *)
\* a Cache object obtained from caches.open stops being the named store once
\* caches.delete removes that name: later writes through it are not visible
OrphanTasks(tk, name) ==
  [t \in Tasks |->
     IF name = tk[t].runtime /\ tk[t].wpc = "put"
     THEN [tk[t] EXCEPT !.orphan = TRUE] ELSE tk[t]]

OrphanInstall(ins, name) ==
  IF name = CACHE_NAME /\ ins.pc = "addAll" THEN [ins EXCEPT !.orphan = TRUE] ELSE ins

\* cache.addAll accepts a response only with an ok status other than 206
\* (0 stands for a network error)
OkStatus(status) == status >= 200 /\ status <= 299 /\ status # 206

RECURSIVE PutAll(_, _, _, _)
PutAll(c, name, assets, outcome) ==
  IF assets = << >> THEN c
  ELSE PutAll(CachePut(c, name, OriginUrl(Head(assets)),
                       NetworkResponse(outcome[Head(assets)], 0,
                                       OriginUrl(Head(assets)))),
              name, Tail(assets), outcome)

AssetSet == { STATIC_ASSETS[i] : i \in 1..Len(STATIC_ASSETS) }

\* install event dispatched: caches.open(CACHE_NAME) is issued
InstallStart ==
  /\ install.pc \in {"idle", "resolved"}
  /\ install.runs < MaxInstalls
  /\ activate.pc = "idle"
  /\ install' = [pc |-> "open", runs |-> install.runs + 1, orphan |-> FALSE,
                 skipWaiting |-> FALSE]
  /\ UNCHANGED <<caches, task, answered, activate, message, skipWaitingCalls, errorLog, poll, gen>>

\* caches.open settles; a rejection goes straight to the catch handler
InstallOpen ==
  /\ install.pc = "open"
  /\ \E ok \in BOOLEAN :
       IF ok
       THEN /\ caches' = CacheOpen(caches, CACHE_NAME)
            /\ install' = [install EXCEPT !.pc = "addAll"]
            /\ UNCHANGED errorLog
       ELSE /\ install' = [install EXCEPT !.pc = "resolved"]
            /\ errorLog' = errorLog + 1
            /\ UNCHANGED caches
  /\ UNCHANGED <<task, answered, activate, message, skipWaitingCalls, poll, gen>>

\* variant: the catch handler also drops the static store after a failed seeding
InstallAddAllMutCleanup ==
  /\ install.pc = "addAll"
  /\ \E outcome \in [AssetSet -> SeedOutcomes] :
       IF \A a \in AssetSet : OkStatus(outcome[a])
       THEN /\ caches' = IF install.orphan THEN caches
                         ELSE PutAll(caches, CACHE_NAME, STATIC_ASSETS, outcome)
            /\ skipWaitingCalls' = skipWaitingCalls + 1
            /\ install' = [install EXCEPT !.pc = "resolved", !.skipWaiting = TRUE]
            /\ UNCHANGED errorLog
       ELSE /\ errorLog' = errorLog + 1
            /\ install' = [install EXCEPT !.pc = "resolved"]
            /\ caches' = CacheDelete(caches, CACHE_NAME)
            /\ UNCHANGED skipWaitingCalls
  /\ UNCHANGED <<task, answered, activate, message, poll, gen>>

\* cache.addAll(STATIC_ASSETS) settles: all entries are written or none is;
\* on success skipWaiting is called, on failure the catch handler logs
InstallAddAll ==
  /\ install.pc = "addAll"
  /\ \E outcome \in [AssetSet -> SeedOutcomes] :
       IF \A a \in AssetSet : OkStatus(outcome[a])
       THEN /\ caches' = IF install.orphan THEN caches
                         ELSE PutAll(caches, CACHE_NAME, STATIC_ASSETS, outcome)
            /\ skipWaitingCalls' = skipWaitingCalls + 1
            /\ install' = [install EXCEPT !.pc = "resolved", !.skipWaiting = TRUE]
            /\ UNCHANGED errorLog
       ELSE /\ errorLog' = errorLog + 1
            /\ install' = [install EXCEPT !.pc = "resolved"]
            /\ UNCHANGED <<caches, skipWaitingCalls>>
  /\ UNCHANGED <<task, answered, activate, message, poll, gen>>

\* variant: the filter keeps every runtime store, whatever its version
StaleNamesMutKeepsRuntime(names) ==
  { names[i] : i \in { j \in 1..Len(names) :
                         names[j] # CACHE_NAME /\ names[j] # RUNTIME_CACHE
                         /\ names[j] # "wifi-portal-runtime-v4" } }

\* the names the activate handler deletes
StaleNames(names) ==
  { names[i] : i \in { j \in 1..Len(names) :
                         names[j] # CACHE_NAME /\ names[j] # RUNTIME_CACHE } }

\* activate event dispatched after install: caches.keys() is issued
ActivateStart ==
  /\ install.pc = "resolved"
  /\ activate.pc = "idle"
  /\ activate' = [activate EXCEPT !.pc = "keys"]
  /\ UNCHANGED <<caches, task, answered, install, message, skipWaitingCalls, errorLog, poll, gen>>

\* variant: the deletions are started but their promise is not returned, so
\* the chain goes on to clients.claim() at once
ActivateKeysMutNoWait ==
  /\ activate.pc = "keys"
  /\ \E ok \in BOOLEAN :
       IF ok
       THEN LET stale == StaleNames(CacheKeys(caches))
            IN  activate' = [activate EXCEPT !.pending = stale, !.logged = stale,
                               !.pc = "claim"]
       ELSE activate' = [activate EXCEPT !.pc = "rejected"]
  /\ UNCHANGED <<caches, task, answered, install, message, skipWaitingCalls, errorLog, poll, gen>>

\* caches.keys() settles: one caches.delete is started per stale name
ActivateKeys ==
  /\ activate.pc = "keys"
  /\ \E ok \in BOOLEAN :
       IF ok
       THEN LET stale == StaleNames(CacheKeys(caches))
            IN  activate' = [activate EXCEPT !.pending = stale, !.logged = stale,
                               !.pc = IF stale = {} THEN "claim" ELSE "delete"]
       ELSE activate' = [activate EXCEPT !.pc = "rejected"]
  /\ UNCHANGED <<caches, task, answered, install, message, skipWaitingCalls, errorLog, poll, gen>>

\* one of the started deletions settles; Promise.all rejects on the first failure
ActivateDelete ==
  /\ activate.pending # {}
  /\ \E name \in activate.pending, ok \in BOOLEAN :
       LET rest == activate.pending \ {name}
       IN  /\ activate' = [activate EXCEPT
                 !.pending = rest,
                 !.pc = IF activate.pc # "delete" THEN activate.pc
                        ELSE IF ~ok THEN "rejected"
                        ELSE IF rest = {} THEN "claim" ELSE "delete"]
           /\ IF ok
              THEN /\ caches' = CacheDelete(caches, name)
                   /\ task' = OrphanTasks(task, name)
                   /\ install' = OrphanInstall(install, name)
              ELSE UNCHANGED <<caches, task, install>>
  /\ UNCHANGED <<answered, message, skipWaitingCalls, errorLog, poll, gen>>

\* self.clients.claim() settles
ActivateClaim ==
  /\ activate.pc = "claim"
  /\ \E ok \in BOOLEAN :
       activate' = [activate EXCEPT !.claimed = TRUE,
                                    !.pc = IF ok THEN "resolved" ELSE "rejected"]
  /\ UNCHANGED <<caches, task, answered, install, message, skipWaitingCalls, errorLog, poll, gen>>

(* -------------------------------------------------------------- messages *)
\* event.data of the messages the hosting page posts: the two literals the
\* listener compares with, and another value
MessageData == {"skipWaiting", "clearCache", "ping"}

\* variant: every message other than 'skipWaiting' is taken as a clear request
MessageEventMutElseClears ==
  /\ message.pc \in {"idle", "resolved", "rejected"}
  /\ message.pending = {}
  /\ message.count < MaxMessages
  /\ \E data \in MessageData :
       /\ skipWaitingCalls' = IF data = "skipWaiting" THEN skipWaitingCalls + 1
                              ELSE skipWaitingCalls
       /\ message' = [message EXCEPT !.count = message.count + 1,
                        !.data = data,
                        !.pc = IF data # "skipWaiting" THEN "keys" ELSE message.pc]
  /\ UNCHANGED <<caches, task, answered, install, activate, errorLog, poll, gen>>

\* message event dispatched
MessageEvent ==
  /\ message.pc \in {"idle", "resolved", "rejected"}
  /\ message.pending = {}
  /\ message.count < MaxMessages
  /\ \E data \in MessageData :
       /\ skipWaitingCalls' = IF data = "skipWaiting" THEN skipWaitingCalls + 1
                              ELSE skipWaitingCalls
       /\ message' = [message EXCEPT !.count = message.count + 1,
                        !.data = data,
                        !.pc = IF data = "clearCache" THEN "keys" ELSE message.pc]
  /\ UNCHANGED <<caches, task, answered, install, activate, errorLog, poll, gen>>

\* clearCache: caches.keys() settles, one caches.delete is started per name
MessageKeys ==
  /\ message.pc = "keys"
  /\ \E ok \in BOOLEAN :
       IF ok
       THEN LET names == { caches[i].name : i \in 1..Len(caches) }
            IN  message' = [message EXCEPT !.pending = names,
                              !.pc = IF names = {} THEN "resolved" ELSE "delete"]
       ELSE message' = [message EXCEPT !.pc = "rejected"]
  /\ UNCHANGED <<caches, task, answered, install, activate, skipWaitingCalls, errorLog, poll, gen>>

\* clearCache: one of the started deletions settles
MessageDelete ==
  /\ message.pending # {}
  /\ \E name \in message.pending, ok \in BOOLEAN :
       LET rest == message.pending \ {name}
       IN  /\ message' = [message EXCEPT
                 !.pending = rest,
                 !.pc = IF message.pc # "delete" THEN message.pc
                        ELSE IF ~ok THEN "rejected"
                        ELSE IF rest = {} THEN "resolved" ELSE "delete"]
           /\ IF ok
              THEN /\ caches' = CacheDelete(caches, name)
                   /\ task' = OrphanTasks(task, name)
                   /\ install' = OrphanInstall(install, name)
              ELSE UNCHANGED <<caches, task, install>>
  /\ UNCHANGED <<answered, activate, skipWaitingCalls, errorLog, poll, gen>>

(* ---------------------------------------------------------- fetch events *)
\* variant: a request whose URL some store holds is served cache-first
\* whatever its class
FetchEventMutCacheAware(t, r) ==
  /\ activate.pc \in {"resolved", "rejected"}
  /\ task[t].pc = "idle"
  /\ \A u \in Tasks : u < t => task[u].pc # "idle"
  /\ LET calls == RespondWithCalls(r)
         b == IF calls = << >> THEN "ignored"
              ELSE IF CachesMatch(caches, r.url).found THEN "static"
              ELSE calls[1]
     IN  task' = [task EXCEPT ![t] =
           [IdleTask EXCEPT
              !.req = r,
              !.branch = b,
              !.respondWith = Len(calls),
              !.pc = IF b = "ignored" THEN "ignored"
                     ELSE IF b = "static" THEN "match" ELSE "fetch",
              !.netFetches = IF b \in {"ignored", "static"} THEN 0 ELSE 1,
              !.afterAnswered = (r.url \in answered)]]
  /\ UNCHANGED <<caches, answered, install, activate, message, skipWaitingCalls, errorLog, poll, gen>>

\* fetch event dispatched to the activated worker: the synchronous part of the
\* listener runs (guards, classification, respondWith) and the first
\* asynchronous operation of the chosen strategy is issued
FetchEvent(t, r) ==
  /\ activate.pc \in {"resolved", "rejected"}
  /\ task[t].pc = "idle"
  /\ \A u \in Tasks : u < t => task[u].pc # "idle"
  /\ LET calls == RespondWithCalls(r)
         b == IF calls = << >> THEN "ignored" ELSE calls[1]
     IN  task' = [task EXCEPT ![t] =
           [IdleTask EXCEPT
              !.req = r,
              !.branch = b,
              !.respondWith = Len(calls),
              !.pc = IF b = "ignored" THEN "ignored"
                     ELSE IF b = "static" THEN "match" ELSE "fetch",
              !.netFetches = IF b \in {"ignored", "static"} THEN 0 ELSE 1,
              !.afterAnswered = (r.url \in answered)]]
  /\ UNCHANGED <<caches, answered, install, activate, message, skipWaitingCalls, errorLog, poll, gen>>

\* variant: a hit is returned and the asset is fetched again all the same
CacheLookupMutRevalidate(t) ==
  /\ task[t].pc = "match"
  /\ LET cached == CachesMatch(caches, task[t].req.url)
     IN  task' = [task EXCEPT ![t] =
           IF cached.found
           THEN [@ EXCEPT !.pc = "done", !.result = cached.response,
                          !.netFetches = @ + 1, !.cacheReads = @ + 1]
           ELSE [@ EXCEPT !.pc = "fetch", !.netFetches = @ + 1,
                          !.cacheReads = @ + 1]]
  /\ UNCHANGED <<caches, answered, install, activate, message, skipWaitingCalls, errorLog, poll, gen>>

\* static: caches.match(request) settles; a hit is returned, a miss goes to the network
CacheLookup(t) ==
  /\ task[t].pc = "match"
  /\ LET cached == CachesMatch(caches, task[t].req.url)
     IN  task' = [task EXCEPT ![t] =
           IF cached.found
           THEN [@ EXCEPT !.pc = "done", !.result = cached.response,
                          !.cacheReads = @ + 1]
           ELSE [@ EXCEPT !.pc = "fetch", !.netFetches = @ + 1,
                          !.cacheReads = @ + 1]]
  /\ UNCHANGED <<caches, answered, install, activate, message, skipWaitingCalls, errorLog, poll, gen>>

\* fetch(request) resolves: the response is returned; the strategies that cache
\* start the write into the runtime store without waiting for it
FetchResolves(t) ==
  /\ task[t].pc = "fetch"
  /\ \E status \in NetStatuses :
       LET response == NetworkResponse(status, t, task[t].req.url)
       IN  /\ task' = [task EXCEPT ![t] =
                 [@ EXCEPT !.pc = "done", !.result = response,
                           !.fetchRank = 1 + Cardinality({ u \in Tasks :
                                                            task[u].fetchRank > 0 }),
                           !.wpc = IF ShouldCache(task[t].branch, response)
                                   THEN "open" ELSE "none"]]
           /\ answered' = IF task[t].branch = "static" /\ status = 200
                          THEN answered \cup {task[t].req.url} ELSE answered
  /\ UNCHANGED <<caches, install, activate, message, skipWaitingCalls, errorLog, poll, gen>>

\* variant: the probe catch handler looks the request up in the caches as the
\* default branch does
FetchRejectsMutProbeCached(t) ==
  /\ task[t].pc = "fetch"
  /\ task' = [task EXCEPT ![t] =
       CASE task[t].branch = "hotspot" -> [@ EXCEPT !.pc = "matchIndex"]
         [] task[t].branch = "api"     -> [@ EXCEPT !.pc = "done", !.result = ApiFallback]
         [] task[t].branch = "static"  -> [@ EXCEPT !.pc = "done", !.result = StaticFallback]
         [] OTHER                      -> [@ EXCEPT !.pc = "matchRequest"]]
  /\ UNCHANGED <<caches, answered, install, activate, message, skipWaitingCalls, errorLog, poll, gen>>

\* fetch(request) rejects: the catch handler of the strategy runs
FetchRejects(t) ==
  /\ task[t].pc = "fetch"
  /\ task' = [task EXCEPT ![t] =
       CASE task[t].branch = "hotspot" -> [@ EXCEPT !.pc = "matchIndex"]
         [] task[t].branch = "probe"   -> [@ EXCEPT !.pc = "done", !.result = ProbeFallback]
         [] task[t].branch = "api"     -> [@ EXCEPT !.pc = "done", !.result = ApiFallback]
         [] task[t].branch = "static"  -> [@ EXCEPT !.pc = "done", !.result = StaticFallback]
         [] OTHER                      -> [@ EXCEPT !.pc = "matchRequest"]]
  /\ UNCHANGED <<caches, answered, install, activate, message, skipWaitingCalls, errorLog, poll, gen>>

\* variant: the HTML catch handler goes to caches.match('/index.html') without
\* using the lookup of the request itself
MatchRequestMutIndexFirst(t) ==
  /\ task[t].pc = "matchRequest"
  /\ LET cached == CachesMatch(caches, task[t].req.url)
     IN  task' = [task EXCEPT ![t] =
           IF task[t].branch = "html"
           THEN [@ EXCEPT !.pc = "matchIndex", !.cacheReads = @ + 1]
           ELSE [@ EXCEPT !.pc = "done", !.cacheReads = @ + 1,
                          !.result = DefaultFallback(cached)]]
  /\ UNCHANGED <<caches, answered, install, activate, message, skipWaitingCalls, errorLog, poll, gen>>

\* HTML and default: caches.match(request) settles after the failed fetch
MatchRequest(t) ==
  /\ task[t].pc = "matchRequest"
  /\ LET cached == CachesMatch(caches, task[t].req.url)
     IN  task' = [task EXCEPT ![t] =
           IF task[t].branch = "html" /\ ~cached.found
           THEN [@ EXCEPT !.pc = "matchIndex", !.cacheReads = @ + 1]
           ELSE [@ EXCEPT !.pc = "done", !.cacheReads = @ + 1,
                          !.result = IF task[t].branch = "html"
                                     THEN cached.response
                                     ELSE DefaultFallback(cached)]]
  /\ UNCHANGED <<caches, answered, install, activate, message, skipWaitingCalls, errorLog, poll, gen>>

\* hotspot and HTML: caches.match('/index.html') settles
MatchIndex(t) ==
  /\ task[t].pc = "matchIndex"
  /\ LET cached == CachesMatch(caches, OriginUrl(PathIndexHtml))
     IN  task' = [task EXCEPT ![t] =
           [@ EXCEPT !.pc = "done", !.cacheReads = @ + 1,
                     !.result = IF task[t].branch = "hotspot"
                                THEN HotspotFallback(cached)
                                ELSE HtmlFallback(cached)]]
  /\ UNCHANGED <<caches, answered, install, activate, message, skipWaitingCalls, errorLog, poll, gen>>

\* variant: the write is chained into the response, so a rejected
\* caches.open reaches the catch handler of the strategy
DeferredOpenMutAwaited(t) ==
  /\ task[t].wpc = "open"
  /\ \E ok \in BOOLEAN :
       IF ok
       THEN /\ caches' = CacheOpen(caches, task[t].runtime)
            /\ task' = [task EXCEPT ![t] = [@ EXCEPT !.wpc = "put"]]
       ELSE /\ task' = [task EXCEPT ![t] = [@ EXCEPT !.wpc = "failed",
                                                     !.result = StaticFallback]]
            /\ UNCHANGED caches
  /\ UNCHANGED <<answered, install, activate, message, skipWaitingCalls, errorLog, poll, gen>>

\* deferred write: caches.open(RUNTIME_CACHE) settles; RUNTIME_CACHE is the
\* constant of the script revision that handles the event
DeferredOpen(t) ==
  /\ task[t].wpc = "open"
  /\ \E ok \in BOOLEAN :
       IF ok
       THEN /\ caches' = CacheOpen(caches, task[t].runtime)
            /\ task' = [task EXCEPT ![t] = [@ EXCEPT !.wpc = "put"]]
       ELSE /\ task' = [task EXCEPT ![t] = [@ EXCEPT !.wpc = "failed"]]
            /\ UNCHANGED caches
  /\ UNCHANGED <<answered, install, activate, message, skipWaitingCalls, errorLog, poll, gen>>

\* variant: the clone is put into the static store
DeferredPutMutStatic(t) ==
  /\ task[t].wpc = "put"
  /\ \E ok \in BOOLEAN :
       IF ok
       THEN /\ caches' = IF task[t].orphan THEN caches
                         ELSE CachePut(caches, CACHE_NAME, task[t].req.url,
                                       [task[t].result EXCEPT !.origin = "network"])
            /\ task' = [task EXCEPT ![t] = [@ EXCEPT !.wpc = "written",
                                                     !.cacheWrites = @ + 1]]
       ELSE /\ task' = [task EXCEPT ![t] = [@ EXCEPT !.wpc = "failed"]]
            /\ UNCHANGED caches
  /\ UNCHANGED <<answered, install, activate, message, skipWaitingCalls, errorLog, poll, gen>>

\* deferred write: cache.put(request, clone) settles
DeferredPut(t) ==
  /\ task[t].wpc = "put"
  /\ \E ok \in BOOLEAN :
       IF ok
       THEN /\ caches' = IF task[t].orphan THEN caches
                         ELSE CachePut(caches, task[t].runtime, task[t].req.url,
                                       [task[t].result EXCEPT !.origin = "network"])
            /\ task' = [task EXCEPT ![t] = [@ EXCEPT !.wpc = "written",
                                                     !.cacheWrites = @ + 1]]
       ELSE /\ task' = [task EXCEPT ![t] = [@ EXCEPT !.wpc = "failed"]]
            /\ UNCHANGED caches
  /\ UNCHANGED <<answered, install, activate, message, skipWaitingCalls, errorLog, poll, gen>>

(* -------------------------------------------------------- specifications *)
\* the activated worker handling fetch events
Next ==
  \/ \E t \in Tasks, r \in Requests : FetchEvent(t, r)
  \/ \E t \in Tasks : CacheLookup(t)
  \/ \E t \in Tasks : FetchResolves(t)
  \/ \E t \in Tasks : FetchRejects(t)
  \/ \E t \in Tasks : MatchRequest(t)
  \/ \E t \in Tasks : MatchIndex(t)
  \/ \E t \in Tasks : DeferredOpen(t)
  \/ \E t \in Tasks : DeferredPut(t)

Spec == Init /\ [][Next]_vars

\* the fetch events in flight while messages are handled: one fewer than
\* without messages
ServingTasks == 1..(MaxTasks - 1)

\* the activated worker handling fetch events and messages of the hosting page
NextServing ==
  \/ \E t \in ServingTasks, r \in ServingRequests : FetchEvent(t, r)
  \/ \E t \in Tasks : CacheLookup(t)
  \/ \E t \in Tasks : FetchResolves(t)
  \/ \E t \in Tasks : FetchRejects(t)
  \/ \E t \in Tasks : MatchRequest(t)
  \/ \E t \in Tasks : MatchIndex(t)
  \/ \E t \in Tasks : DeferredOpen(t)
  \/ \E t \in Tasks : DeferredPut(t)
  \/ MessageEvent
  \/ MessageKeys
  \/ MessageDelete

\* the activated worker whose install seeded the static store
InitServing ==
  /\ Init
  /\ caches \in { << SeededStaticStore >>, << OldStaticStore, SeededStaticStore >> }

SpecServing == InitServing /\ [][NextServing]_vars

\* install, activation and messages of a worker that is not serving yet
NextLifecycle ==
  \/ InstallStart
  \/ InstallOpen
  \/ InstallAddAll
  \/ ActivateStart
  \/ ActivateKeys
  \/ ActivateDelete
  \/ ActivateClaim
  \/ MessageEvent
  \/ MessageKeys
  \/ MessageDelete

SpecLifecycle == InitLifecycle /\ [][NextLifecycle]_vars

\* the new revision installs and activates while fetch handlers of the
\* superseded revision finish
InitRollover ==
  /\ caches \in { << OldStaticStore >>, << OldStaticStore, OldRuntimeStore >> }
  /\ task = [t \in Tasks |-> OldHandler]
  /\ answered = {}
  /\ install = [pc |-> "idle", runs |-> 0, orphan |-> FALSE, skipWaiting |-> FALSE]
  /\ activate = [pc |-> "idle", pending |-> {}, logged |-> {}, claimed |-> FALSE]
  /\ message = [pc |-> "idle", pending |-> {}, count |-> 0, data |-> NoData]
  /\ skipWaitingCalls = 0
  /\ errorLog = 0
  /\ poll = IdlePoll
  /\ gen = NoGen

NextRollover ==
  \/ InstallStart
  \/ InstallOpen
  \/ InstallAddAll
  \/ ActivateStart
  \/ ActivateKeys
  \/ ActivateDelete
  \/ ActivateClaim
  \/ \E t \in Tasks : FetchResolves(t)
  \/ \E t \in Tasks : FetchRejects(t)
  \/ \E t \in Tasks : DeferredOpen(t)
  \/ \E t \in Tasks : DeferredPut(t)

SpecRollover == InitRollover /\ [][NextRollover]_vars

(* ------------------------------------- the v2 revision: HTML documents *)
\* a Promise object as a JavaScript value, and the value a then-callback
\* returning v resolves the chain with
Promise(v) == [origin |-> "promise", value |-> v]

Truthy(v) == v # NoResponse

\* a || b
JsOr(a, b) == IF Truthy(a) THEN a ELSE b

Resolve(v) == IF v.origin = "promise" THEN v.value ELSE v

V2OfflinePage ==
  Response(Body("html", "You are offline. Please reconnect."), 200, "text/html", NoHeader)

\* cachedResponse || caches.match('/index.html') || new Response(...), with
\* indexMatch the value the lookup of '/index.html' settles with
V2HtmlCatchValue(cachedResponse, indexMatch) ==
  JsOr(JsOr(cachedResponse, Promise(indexMatch)), V2OfflinePage)

V2StaticStore ==
  [name |-> "wifi-portal-v2",
   entries |-> [k \in {OriginUrl(PathRoot), OriginUrl(PathIndexHtml)} |->
                  NetworkResponse(200, 0, k)]]

\* requests that reach the HTML branch of the v2 listener
V2HtmlRequests ==
  { Request("GET", Url(ProtoHttp, HostPortal, PathRoot, {}), HeaderValue(AcceptHtml)),
    Request("GET", Url(ProtoHttp, HostPortal, PathLoginHtml, {}), HeaderValue(AcceptAny)),
    Request("GET", Url(ProtoHttp, HostPortal, PathData, {}), HeaderValue(AcceptHtml)) }

\* the HTML branch calls respondWith(fetch(request)...)
V2FetchEvent(t, r) ==
  /\ task[t].pc = "idle"
  /\ \A u \in Tasks : u < t => task[u].pc # "idle"
  /\ task' = [task EXCEPT ![t] =
       [IdleTask EXCEPT !.req = r, !.branch = "html", !.respondWith = 1,
                        !.pc = "fetch", !.netFetches = 1,
                        !.runtime = "wifi-portal-runtime-v2"]]
  /\ UNCHANGED <<caches, answered, install, activate, message, skipWaitingCalls, errorLog, poll, gen>>

\* the catch handler: caches.match(request) settles and its then-callback
\* returns; a returned Promise is adopted by the chain
V2MatchRequest(t) ==
  /\ task[t].pc = "matchRequest"
  /\ LET cached == CachesMatch(caches, task[t].req.url)
         value == V2HtmlCatchValue(cached.response, NoResponse)
     IN  task' = [task EXCEPT ![t] =
           IF value.origin = "promise"
           THEN [@ EXCEPT !.pc = "matchIndex", !.cacheReads = @ + 1]
           ELSE [@ EXCEPT !.pc = "done", !.cacheReads = @ + 1, !.result = value]]
  /\ UNCHANGED <<caches, answered, install, activate, message, skipWaitingCalls, errorLog, poll, gen>>

\* caches.match('/index.html') settles: the handler's promise resolves with
\* the value of the adopted Promise
V2MatchIndex(t) ==
  /\ task[t].pc = "matchIndex"
  /\ LET indexMatch == CachesMatch(caches, OriginUrl(PathIndexHtml)).response
     IN  task' = [task EXCEPT ![t] =
           [@ EXCEPT !.pc = "done", !.cacheReads = @ + 1,
                     !.result = Resolve(V2HtmlCatchValue(NoResponse, indexMatch))]]
  /\ UNCHANGED <<caches, answered, install, activate, message, skipWaitingCalls, errorLog, poll, gen>>

\* the activated v2 worker: install seeded its static store; a clearCache
\* message may have emptied the storage since
InitV2 ==
  /\ caches \in { << >>, << V2StaticStore >> }
  /\ task = [t \in Tasks |-> IdleTask]
  /\ answered = {}
  /\ install = [pc |-> "resolved", runs |-> 1, orphan |-> FALSE, skipWaiting |-> TRUE]
  /\ activate = [pc |-> "resolved", pending |-> {}, logged |-> {}, claimed |-> TRUE]
  /\ message = [pc |-> "idle", pending |-> {}, count |-> 0, data |-> NoData]
  /\ skipWaitingCalls = 1
  /\ errorLog = 0
  /\ poll = IdlePoll
  /\ gen = NoGen

NextV2 ==
  \/ \E t \in Tasks, r \in V2HtmlRequests : V2FetchEvent(t, r)
  \/ \E t \in Tasks : FetchResolves(t)
  \/ \E t \in Tasks : FetchRejects(t)
  \/ \E t \in Tasks : V2MatchRequest(t)
  \/ \E t \in Tasks : V2MatchIndex(t)
  \/ \E t \in Tasks : DeferredOpen(t)
  \/ \E t \in Tasks : DeferredPut(t)

SpecV2 == InitV2 /\ [][NextV2]_vars

(* --------------------------------- the portal page: pollPaymentStatus *)
maxPolls == 60

\* what a status query settles with: no result code yet, a response that is
\* not ok, a rejected fetch or json(), result code 0 or 'completed', one of
\* the codes 1, 2001, 17, and code 1032
QueryOutcomes == {"pending", "notOk", "throw", "success", "failure", "cancel"}

\* variant: the poll count has to exceed maxPolls
TimedOutMutLate(count) == count > maxPolls

\* currentPollCount >= maxPolls
TimedOut(count) == count >= maxPolls

\* isProcessing = true; clearInterval(pollingIntervalRef.current);
\* setPaymentStatus({ status, message })
StopPolling(p, status) ==
  [p EXCEPT !.isProcessing = TRUE, !.pollingIntervalRef = FALSE,
            !.paymentStatus = status, !.message = status]

\* the catch block of the interval callback
PollCatch(p) ==
  IF TimedOut(p.currentPollCount) THEN StopPolling(p, "error") ELSE p

\* the rest of the interval callback after the awaits, run with the poll
\* count as it is when the query settles
PollContinuation(p, outcome) ==
  CASE outcome = "throw"   -> PollCatch(p)
    [] outcome = "notOk"   -> IF p.currentPollCount >= maxPolls - 5 THEN PollCatch(p) ELSE p
    [] outcome = "success" -> [StopPolling(p, "syncing") EXCEPT !.autoLogin = @ + 1]
    [] outcome = "failure" -> StopPolling(p, "failed")
    [] outcome = "cancel"  -> StopPolling(p, "cancelled")
    [] OTHER               ->
         LET q == [p EXCEPT !.message = "progress"]
         IN  IF TimedOut(p.currentPollCount) THEN StopPolling(q, "timeout") ELSE q

\* the interval fires: the callback counts the poll and, unless isProcessing,
\* issues a status query and suspends at the await
PollTick ==
  /\ poll.pollingIntervalRef
  /\ poll.inFlight < MaxInFlight
  /\ poll' = [poll EXCEPT !.currentPollCount = @ + 1,
                          !.inFlight = IF poll.isProcessing THEN @ ELSE @ + 1]
  /\ UNCHANGED <<worker, gen>>

\* a status query settles and its callback resumes
PollSettle(outcome) ==
  /\ poll.inFlight > 0
  /\ poll' = PollContinuation([poll EXCEPT !.inFlight = @ - 1], outcome)
  /\ UNCHANGED <<worker, gen>>

\* the user cancels: resetFlow clears the interval and the payment status
ResetFlow ==
  /\ ~poll.reset
  /\ poll' = [poll EXCEPT !.pollingIntervalRef = FALSE, !.paymentStatus = "idle",
                          !.message = "", !.reset = TRUE]
  /\ UNCHANGED <<worker, gen>>

\* pollPaymentStatus has just been called for a payment that is 'waiting'
InitPoll ==
  /\ caches = << >>
  /\ task = [t \in Tasks |-> IdleTask]
  /\ answered = {}
  /\ install = [pc |-> "idle", runs |-> 0, orphan |-> FALSE, skipWaiting |-> FALSE]
  /\ activate = [pc |-> "idle", pending |-> {}, logged |-> {}, claimed |-> FALSE]
  /\ message = [pc |-> "idle", pending |-> {}, count |-> 0, data |-> NoData]
  /\ skipWaitingCalls = 0
  /\ errorLog = 0
  /\ poll = [IdlePoll EXCEPT !.pollingIntervalRef = TRUE, !.paymentStatus = "waiting",
                             !.message = "prompt"]
  /\ gen = NoGen

NextPoll ==
  \/ PollTick
  \/ \E outcome \in QueryOutcomes : PollSettle(outcome)
  \/ ResetFlow

\* the timer keeps firing while the interval is set, and every query that
\* was issued settles
SpecPoll ==
  /\ InitPoll
  /\ [][NextPoll]_vars
  /\ WF_vars(PollTick)
  /\ WF_vars(\E outcome \in QueryOutcomes : PollSettle(outcome))

\* the install handler alone, run repeatedly before any activation
NextInstall ==
  \/ InstallStart
  \/ InstallOpen
  \/ InstallAddAll

SpecInstall == InitLifecycle /\ [][NextInstall]_vars

\* one fetch event drawn from every request shape, handled to completion
NextClassify ==
  \/ \E r \in AllRequests : FetchEvent(1, r)
  \/ CacheLookup(1)
  \/ FetchResolves(1)
  \/ FetchRejects(1)
  \/ MatchRequest(1)
  \/ MatchIndex(1)
  \/ DeferredOpen(1)
  \/ DeferredPut(1)

SpecClassify == Init /\ [][NextClassify]_vars

(* ================================================================ claims *)
SensitiveBranches == {"hotspot", "probe", "api"}

Dispatched(t) == task[t].pc # "idle"

IsEmpty503(response) ==
  /\ response.origin = "synth"
  /\ response.status = 503
  /\ response.body = Body("text", "")

IsJsonEnvelope503(response) ==
  /\ response.origin = "synth"
  /\ response.status = 503
  /\ response.body.kind = "json"
  /\ response.body.success = FALSE

\* the fetch of a finished handler was rejected: its answer is not the network's
FetchFailed(t) ==
  /\ task[t].pc = "done"
  /\ task[t].netFetches > 0
  /\ task[t].result.origin # "network"

(* C1: every step taken by the handler of a captive-portal-login, OS-probe or
   API request leaves cache storage unchanged, whatever the network outcome. *)
C1_NoSensitiveCacheWrite ==
  [][\A t \in Tasks :
       (task'[t] # task[t] /\ task'[t].branch \in SensitiveBranches)
         => caches' = caches]_vars

C1_Witness ==
  \E t \in Tasks :
    /\ task[t].branch = "hotspot"
    /\ task[t].pc = "done"
    /\ task[t].result.origin = "network"
    /\ task[t].result.status = 200

(* C2 as stated: after a failed fetch a login, probe or API request is never
   answered from a cache store; the answer is an empty 503 or a JSON error
   envelope. *)
C2_Original ==
  \A t \in Tasks :
    (task[t].branch \in SensitiveBranches /\ FetchFailed(t))
      => (IsEmpty503(task[t].result) \/ IsJsonEnvelope503(task[t].result))

(* C2 amended: after a failed fetch a probe request is answered with an empty
   503 and an API request with the JSON error envelope and 503, never from a
   cache store; a login request is answered with the '/index.html' document
   read from a cache store, or with the synthesized loading page whose status
   is 200. *)
C2_SensitiveFailureResponses ==
  \A t \in Tasks :
    FetchFailed(t) =>
      /\ task[t].branch = "probe" => IsEmpty503(task[t].result)
      /\ task[t].branch = "api" => IsJsonEnvelope503(task[t].result)
      /\ task[t].branch = "hotspot" =>
           \/ /\ task[t].result.origin = "cache"
              /\ task[t].result.url = OriginUrl(PathIndexHtml)
           \/ /\ task[t].result = LoadingPage
              /\ task[t].result.status = 200

C2_Witness ==
  \E t \in Tasks :
    /\ task[t].branch = "hotspot"
    /\ FetchFailed(t)
    /\ task[t].result.origin = "cache"

(* C3 as stated: with fetch events only, a static-asset request dispatched after
   a static-asset request for the same URL was answered from the network with
   status 200 issues no network fetch. *)
C3_CacheFirstAfterSuccess ==
  \A t \in Tasks :
    (task[t].branch = "static" /\ task[t].afterAnswered)
      => task[t].netFetches = 0

(* C4: once the activate handler has completed, cache storage holds no store
   other than the static and the runtime store of this version. *)
C4_NoStaleStoreAfterActivate ==
  activate.pc = "resolved" =>
    \A i \in 1..Len(caches) : caches[i].name \in {CACHE_NAME, RUNTIME_CACHE}

C4_Witness ==
  /\ activate.pc = "resolved"
  /\ activate.logged = {"wifi-portal-v4", "wifi-portal-runtime-v4"}
  /\ CacheHas(caches, CACHE_NAME)

\* the classes in the priority order of the classifier
ClassOrder == <<"ignored", "hotspot", "probe", "api", "static", "html", "default">>

ClassPredicate(class, request) ==
  CASE class = "ignored" -> isIgnored(request)
    [] class = "hotspot" -> isHotspotURL(request.url)
    [] class = "probe"   -> isCaptiveProbe(request.url)
    [] class = "api"     -> isApiCall(request.url)
    [] class = "static"  -> isStaticAsset(request.url)
    [] class = "html"    -> isHtmlRequest(request)
    [] OTHER             -> TRUE

EarliestClass(request) ==
  LET i == CHOOSE j \in 1..Len(ClassOrder) :
             /\ ClassPredicate(ClassOrder[j], request)
             /\ \A k \in 1..(j - 1) : ~ClassPredicate(ClassOrder[k], request)
  IN  ClassOrder[i]

\* the synthesized answers that only the strategy of a class produces
SynthesizedBy(class) ==
  CASE class = "hotspot" -> {LoadingPage}
    [] class = "probe"   -> {ProbeFallback}
    [] class = "api"     -> {ApiFallback}
    [] class = "static"  -> {StaticFallback}
    [] class = "html"    -> {HtmlFallback([found |-> FALSE, response |-> NoResponse])}
    [] class = "default" -> {DefaultFallback([found |-> FALSE, response |-> NoResponse])}
    [] OTHER             -> {}

(* C5: every request is handled by the strategy of the earliest class, in the
   order ignored, login, probe, API, static, HTML, default, whose predicate it
   satisfies, and by that strategy only. *)
C5_FirstMatchWins ==
  \A t \in Tasks :
    Dispatched(t) =>
      LET class == EarliestClass(task[t].req)
      IN  /\ task[t].branch = class
          /\ task[t].respondWith <= 1
          /\ (task[t].pc = "ignored") = (class = "ignored")
          /\ (task[t].pc = "match") => class = "static"
          /\ (task[t].pc = "done" /\ task[t].result.origin = "synth")
               => task[t].result \in SynthesizedBy(class)

C5_Witness ==
  \E t \in Tasks :
    /\ task[t].pc = "done"
    /\ task[t].req.url.pathname = PathRoot
    /\ "dst" \in task[t].req.url.searchParams
    /\ isHtmlRequest(task[t].req)
    /\ task[t].branch = "hotspot"
    /\ task[t].result = LoadingPage

IsHttpGet(request) ==
  /\ request.method = "GET"
  /\ request.url.protocol \in {ProtoHttp, ProtoHttps}

(* C6 as stated: GET /status?dst=... and GET /login.html are both classified as
   captive-portal-login. *)
C6_Original ==
  \A t \in Tasks :
    (/\ Dispatched(t)
     /\ IsHttpGet(task[t].req)
     /\ \/ /\ task[t].req.url.pathname = PathStatus
           /\ "dst" \in task[t].req.url.searchParams
        \/ task[t].req.url.pathname = PathLoginHtml)
      => task[t].branch = "hotspot"

(* C6 amended: GET /status?dst=... is classified as captive-portal-login; GET
   /login.html is classified as captive-portal-login only when it carries one
   of the login query parameters, and otherwise as OS-probe on a probe host
   name and as HTML-document on any other host. *)
C6_LoginHtmlClass ==
  \A t \in Tasks :
    (Dispatched(t) /\ IsHttpGet(task[t].req)) =>
      LET url == task[t].req.url
      IN  /\ (url.pathname = PathStatus /\ "dst" \in url.searchParams)
               => task[t].branch = "hotspot"
          /\ url.pathname = PathLoginHtml =>
               task[t].branch =
                 IF url.searchParams \cap hotspotParams # {} THEN "hotspot"
                 ELSE IF isCaptiveProbe(url) THEN "probe"
                 ELSE "html"

C6_Witness ==
  \E t \in Tasks :
    /\ task[t].pc = "done"
    /\ IsHttpGet(task[t].req)
    /\ task[t].req.url.pathname = PathLoginHtml
    /\ task[t].req.url.searchParams = {}
    /\ task[t].branch = "html"

\* a Content-Type that fits the kind of body
FitsBody(contentType, body) ==
  CASE body.kind = "html" -> contentType \in {"text/html", "text/html; charset=utf-8"}
    [] body.kind = "json" -> contentType = "application/json"
    [] OTHER              -> contentType = "text/plain;charset=UTF-8"

(* C7: a handler whose fetch was rejected and that found no cache entry answers
   with a Response, never with undefined, whose status is defined and whose
   Content-Type fits its body. *)
C7_FallbackWellFormed ==
  \A t \in Tasks :
    task[t].pc = "done" =>
      /\ task[t].result.origin \in {"network", "cache", "synth"}
      /\ task[t].result.origin = "synth" =>
           /\ task[t].result.status \in {200, 503}
           /\ task[t].result.contentType # NoHeader
           /\ FitsBody(task[t].result.contentType, task[t].result.body)

C7_Witness ==
  \E t \in Tasks :
    /\ task[t].pc = "done"
    /\ task[t].branch = "default"
    /\ task[t].result.origin = "synth"
    /\ task[t].result.contentType = "text/plain;charset=UTF-8"

(* C8: a request that is not a GET or not http(s) is left alone: no respondWith,
   no network fetch, no cache read and no cache write by its handler. *)
C8_IgnoredUntouched ==
  /\ [](\A t \in Tasks :
         (Dispatched(t) /\ ~IsHttpGet(task[t].req)) =>
           /\ task[t].pc = "ignored"
           /\ task[t].respondWith = 0
           /\ task[t].netFetches = 0
           /\ task[t].cacheReads = 0
           /\ task[t].cacheWrites = 0
           /\ task[t].wpc = "none"
           /\ task[t].result = NoResponse)
  /\ [][\A t \in Tasks :
         (task'[t] # task[t] /\ ~IsHttpGet(task'[t].req)) => caches' = caches]_vars

C8_Witness ==
  \E t \in Tasks :
    /\ task[t].pc = "ignored"
    /\ task[t].req.method = "GET"
    /\ task[t].req.url.protocol = ProtoExtension

(* C9: respondWith is called exactly once for a GET http(s) request and not at
   all for any other request. *)
C9_RespondWithOnce ==
  \A t \in Tasks :
    Dispatched(t) =>
      task[t].respondWith = IF IsHttpGet(task[t].req) THEN 1 ELSE 0

C9_Witness ==
  \E t \in Tasks :
    /\ task[t].pc = "done"
    /\ task[t].branch = "default"
    /\ task[t].respondWith = 1
    /\ task[t].result.origin = "network"

(* C10 as stated: whenever the install handler has finished, with seeding
   succeeded or failed, it has called self.skipWaiting(). *)
C10_InstallAlwaysSkipsWaiting ==
  install.pc = "resolved" => install.skipWaiting

\* C11: a failing store operation in the install, activate or message handler
\* is caught and logged, so that the promise handed to waitUntil never rejects.
C11_WaitUntilNeverRejects ==
  /\ install.pc # "rejected"
  /\ activate.pc # "rejected"
  /\ message.pc # "rejected"

\* C12: clients.claim() is invoked only once every deletion the activation
\* started has completed; while one is outstanding the claim is neither
\* pending nor settled.
C12_ClaimAfterDeletions ==
  (activate.pc = "claim" \/ activate.claimed) => activate.pending = {}

C12_Witness ==
  /\ activate.pc = "claim"
  /\ activate.logged = {"wifi-portal-v4", "wifi-portal-runtime-v4"}
  /\ ~CacheHas(caches, "wifi-portal-v4")
  /\ ~CacheHas(caches, "wifi-portal-runtime-v4")

\* the keys held by the store called name (empty when there is no such store)
StoreKeySet(c, name) ==
  UNION { DOMAIN c[i].entries : i \in { j \in 1..Len(c) : c[j].name = name } }

\* the keys cache.addAll(STATIC_ASSETS) writes
ManifestKeys == { OriginUrl(a) : a \in AssetSet }

\* C13: every entry of the static store and of the runtime store holds a
\* response whose status is 200.
C13_OnlyStatus200Cached ==
  \A i \in 1..Len(caches) :
    caches[i].name \in {CACHE_NAME, RUNTIME_CACHE} =>
      \A k \in DOMAIN caches[i].entries : caches[i].entries[k].status = 200

\* C14: the static store never holds a key outside the manifest, and once a
\* seeding has succeeded every completed install run, the first or a later
\* one, succeeding or failing, leaves its key set equal to the manifest's.
C14_InstallIdempotent ==
  /\ StoreKeySet(caches, CACHE_NAME) \subseteq ManifestKeys
  /\ (install.pc = "resolved" /\ skipWaitingCalls >= 1) =>
        StoreKeySet(caches, CACHE_NAME) = ManifestKeys

C14_Witness ==
  /\ install.pc = "resolved"
  /\ install.runs = 2
  /\ skipWaitingCalls = 1
  /\ ~install.skipWaiting
  /\ StoreKeySet(caches, CACHE_NAME) = ManifestKeys

\* some store of c holds an entry under key
HoldsKey(c, key) == \E i \in 1..Len(c) : key \in DOMAIN c[i].entries

\* response is the entry some store of c holds under key, as caches.match returns it
IsEntryOf(response, c, key) ==
  \E i \in 1..Len(c) :
    /\ key \in DOMAIN c[i].entries
    /\ response = [c[i].entries[key] EXCEPT !.origin = "cache", !.store = c[i].name]

\* response is what the network sent task t, as it was sent
IsVerbatim(response, t) ==
  \E status \in NetStatuses : response = NetworkResponse(status, t, task[t].req.url)

IndexUrl == OriginUrl(PathIndexHtml)

\* C15: the handler of a captive-portal-login request returns the network
\* response as it is, whatever its status, when the fetch resolves; when the
\* fetch rejects it returns the cached '/index.html' entry if any store holds
\* one at the lookup, and otherwise the synthesized loading page with status
\* 200 and a no-cache Cache-Control header.  No store is written either way.
C15_HotspotStrategy ==
  [][\A t \in Tasks :
       (task[t].branch = "hotspot" /\ task[t].pc # "done" /\ task'[t].pc = "done") =>
         /\ caches' = caches
         /\ task'[t].wpc = "none"
         /\ task'[t].cacheWrites = 0
         /\ task[t].pc \in {"fetch", "matchIndex"}
         /\ task[t].pc = "fetch" =>
              /\ IsVerbatim(task'[t].result, t)
              /\ task'[t].cacheReads = 0
         /\ task[t].pc = "matchIndex" =>
              IF HoldsKey(caches, IndexUrl)
              THEN IsEntryOf(task'[t].result, caches, IndexUrl)
              ELSE /\ task'[t].result.origin = "synth"
                   /\ task'[t].result.body = Body("html", "Loading WiFi Portal")
                   /\ task'[t].result.status = 200
                   /\ task'[t].result.cacheControl = "no-cache, no-store, must-revalidate"
  ]_vars

C15_Witness ==
  \E t \in Tasks :
    /\ task[t].branch = "hotspot"
    /\ task[t].pc = "done"
    /\ task[t].result.origin = "cache"
    /\ task[t].result.url = IndexUrl
    /\ task[t].result.store = "wifi-portal-v4"

\* C16: when the network answers a static-asset request that missed every
\* store with status 200, the runtime store holds an entry for the request's
\* URL at the moment the response is returned.
C16_StoredWhenReturned ==
  [][\A t \in Tasks :
       ( /\ task[t].branch = "static"
         /\ task[t].pc = "fetch"
         /\ task'[t].pc = "done"
         /\ task'[t].result.origin = "network"
         /\ task'[t].result.status = 200 ) =>
         task[t].req.url \in StoreKeySet(caches', RUNTIME_CACHE)
  ]_vars

RootUrl == OriginUrl(PathRoot)

\* response is the entry under key of the first store of c, in creation
\* order, that holds the key
IsFirstEntryOf(response, c, key) ==
  \E i \in 1..Len(c) :
    /\ key \in DOMAIN c[i].entries
    /\ \A j \in 1..(i - 1) : key \notin DOMAIN c[j].entries
    /\ response = [c[i].entries[key] EXCEPT !.origin = "cache", !.store = c[i].name]

\* task t handles a GET of '/' as an HTML document, its fetch has failed, the
\* static or the runtime store holds '/index.html', and the step moves it on
RootFallbackStep(t) ==
  /\ task[t].branch = "html"
  /\ task[t].req.url = RootUrl
  /\ task[t].pc \in {"matchRequest", "matchIndex"}
  /\ task'[t].pc # task[t].pc
  /\ IndexUrl \in StoreKeySet(caches, CACHE_NAME) \cup StoreKeySet(caches, RUNTIME_CACHE)

(* C17 as stated: a GET of '/' whose fetch rejects while the static or the
   runtime store holds '/index.html' is answered with that '/index.html'
   document, status 200, whatever else the stores hold. *)
C17_Original ==
  [][\A t \in Tasks :
       (RootFallbackStep(t) /\ task'[t].pc = "done") =>
         /\ task'[t].result.origin = "cache"
         /\ task'[t].result.url = IndexUrl
         /\ task'[t].result.store \in {CACHE_NAME, RUNTIME_CACHE}
         /\ task'[t].result.status = 200
  ]_vars

(* C17 amended: a GET of '/' whose fetch rejects while the static or the
   runtime store holds '/index.html' is answered from a cache store: with the
   entry stored for '/' itself when some store holds one at the first lookup,
   and only otherwise with the '/index.html' entry; either is taken from the
   first store in creation order holding the key, as it was stored. *)
C17_RootFallback ==
  [][\A t \in Tasks :
       RootFallbackStep(t) =>
         /\ task[t].pc = "matchRequest" =>
              IF HoldsKey(caches, RootUrl)
              THEN /\ task'[t].pc = "done"
                   /\ IsFirstEntryOf(task'[t].result, caches, RootUrl)
              ELSE task'[t].pc = "matchIndex"
         /\ task[t].pc = "matchIndex" =>
              /\ task'[t].pc = "done"
              /\ IsFirstEntryOf(task'[t].result, caches, IndexUrl)
  ]_vars

C17_Witness ==
  \E t \in Tasks :
    /\ task[t].branch = "html"
    /\ task[t].req.url = RootUrl
    /\ FetchFailed(t)
    /\ task[t].result.origin = "cache"
    /\ task[t].result.url = RootUrl
    /\ task[t].result.status = 204
    /\ IndexUrl \in StoreKeySet(caches, CACHE_NAME)

(* C18: an HTML-document request always goes to the network first; when the
   fetch rejects, the answer is the cached entry of the request itself, else
   (only when no store holds one) the cached '/index.html' entry, else (only
   when no store holds that either) the synthesized offline page with status
   200 and Content-Type text/html. *)
C18_HtmlFallbackOrder ==
  /\ [](\A t \in Tasks :
         task[t].branch = "html" =>
           /\ task[t].netFetches = 1
           /\ task[t].pc = "fetch" => task[t].cacheReads = 0)
  /\ [][\A t \in Tasks :
         (task[t].branch = "html" /\ task'[t].pc # task[t].pc) =>
           /\ task[t].pc = "fetch" =>
                \/ task'[t].pc = "done" /\ IsVerbatim(task'[t].result, t)
                \/ task'[t].pc = "matchRequest"
           /\ task[t].pc = "matchRequest" =>
                IF HoldsKey(caches, task[t].req.url)
                THEN /\ task'[t].pc = "done"
                     /\ IsEntryOf(task'[t].result, caches, task[t].req.url)
                ELSE task'[t].pc = "matchIndex"
           /\ task[t].pc = "matchIndex" =>
                /\ task'[t].pc = "done"
                /\ IF HoldsKey(caches, IndexUrl)
                   THEN IsEntryOf(task'[t].result, caches, IndexUrl)
                   ELSE /\ task'[t].result.origin = "synth"
                        /\ task'[t].result.body.kind = "html"
                        /\ task'[t].result.status = 200
                        /\ task'[t].result.contentType = "text/html"
    ]_vars

C18_Witness ==
  \E t \in Tasks :
    /\ task[t].branch = "html"
    /\ task[t].req.url # IndexUrl
    /\ FetchFailed(t)
    /\ task[t].cacheReads = 2
    /\ task[t].result.origin = "cache"
    /\ task[t].result.url = IndexUrl

(* C19: a default-class request whose fetch rejects is answered with the
   cached entry of the request itself when a store holds one and otherwise
   with an empty 503; its handler never looks up '/index.html' and never
   answers with a synthesized HTML page. *)
C19_DefaultFallback ==
  /\ [](\A t \in Tasks :
         task[t].branch = "default" =>
           /\ task[t].pc # "matchIndex"
           /\ task[t].cacheReads <= 1
           /\ FetchFailed(t) =>
                \/ task[t].result.origin = "cache" /\ task[t].result.url = task[t].req.url
                \/ IsEmpty503(task[t].result))
  /\ [][\A t \in Tasks :
         (task[t].branch = "default" /\ task[t].pc = "matchRequest"
            /\ task'[t].pc # task[t].pc) =>
           /\ task'[t].pc = "done"
           /\ IF HoldsKey(caches, task[t].req.url)
              THEN IsEntryOf(task'[t].result, caches, task[t].req.url)
              ELSE IsEmpty503(task'[t].result)
    ]_vars

C19_Witness ==
  \E t \in Tasks :
    /\ task[t].branch = "default"
    /\ FetchFailed(t)
    /\ task[t].result.origin = "cache"
    /\ task[t].result.store = RUNTIME_CACHE
    /\ HoldsKey(caches, IndexUrl)

(* C20: the handler of an OS-connectivity-probe request never reads a cache
   store: it issues one network fetch and answers with the network response as
   it is when the fetch resolves and with an empty 503 when it rejects. *)
C20_ProbeNetworkOnly ==
  \A t \in Tasks :
    task[t].branch = "probe" =>
      /\ task[t].cacheReads = 0
      /\ task[t].netFetches = 1
      /\ task[t].pc \in {"fetch", "done"}
      /\ task[t].pc = "done" =>
           \/ IsVerbatim(task[t].result, t)
           \/ IsEmpty503(task[t].result)

C20_Witness ==
  \E t, u \in Tasks :
    /\ task[t].branch = "probe"
    /\ task[t].pc = "done"
    /\ IsEmpty503(task[t].result)
    /\ task[u].branch = "probe"
    /\ task[u].pc = "done"
    /\ task[u].result.origin = "network"
    /\ task[u].result.status = 404
    /\ HoldsKey(caches, IndexUrl)

(* C21: the handler of a backend-API-call request neither reads nor writes a
   cache store: it issues one network fetch and answers with the network
   response as it is when the fetch resolves, and when it rejects with a
   status-503 response of Content-Type application/json whose JSON body has
   'success' false and a message in 'error'. *)
C21_ApiNetworkOnly ==
  \A t \in Tasks :
    task[t].branch = "api" =>
      /\ task[t].cacheReads = 0
      /\ task[t].cacheWrites = 0
      /\ task[t].wpc = "none"
      /\ task[t].netFetches = 1
      /\ task[t].pc \in {"fetch", "done"}
      /\ task[t].pc = "done" =>
           \/ IsVerbatim(task[t].result, t)
           \/ /\ task[t].result.origin = "synth"
              /\ task[t].result.status = 503
              /\ task[t].result.contentType = "application/json"
              /\ task[t].result.body.kind = "json"
              /\ task[t].result.body.success = FALSE
              /\ task[t].result.body.error # ""

C21_Witness ==
  \E t, u \in Tasks :
    /\ task[t].branch = "api"
    /\ task[t].pc = "done"
    /\ task[t].result.origin = "network"
    /\ task[t].result.status = 200
    /\ task[u].branch = "api"
    /\ task[u].pc = "done"
    /\ IsJsonEnvelope503(task[u].result)
    /\ task[u].req.url = task[t].req.url

(* C22: a static-asset request that finds a matching entry at its lookup is
   answered with that entry, issues no network fetch and writes no store; one
   that finds none and whose fetch rejects is answered with the text
   'Asset unavailable' and status 503. *)
C22_StaticCacheFirst ==
  /\ [](\A t \in Tasks :
         (task[t].branch = "static" /\ task[t].pc = "done"
            /\ task[t].result.origin = "cache") =>
           /\ task[t].netFetches = 0
           /\ task[t].cacheWrites = 0
           /\ task[t].wpc = "none")
  /\ [][\A t \in Tasks :
         (task[t].branch = "static" /\ task'[t].pc # task[t].pc) =>
           /\ task[t].pc = "match" =>
                /\ caches' = caches
                /\ IF HoldsKey(caches, task[t].req.url)
                   THEN /\ task'[t].pc = "done"
                        /\ IsFirstEntryOf(task'[t].result, caches, task[t].req.url)
                        /\ task'[t].netFetches = 0
                        /\ task'[t].wpc = "none"
                   ELSE /\ task'[t].pc = "fetch"
                        /\ task'[t].netFetches = 1
           /\ task[t].pc = "fetch" =>
                /\ task'[t].pc = "done"
                /\ \/ IsVerbatim(task'[t].result, t)
                   \/ /\ task'[t].result.origin = "synth"
                      /\ task'[t].result.body = Body("text", "Asset unavailable")
                      /\ task'[t].result.status = 503
                      /\ task'[t].wpc = "none"
    ]_vars

C22_Witness ==
  \E t, u \in Tasks :
    /\ task[t].branch = "static"
    /\ task[t].pc = "done"
    /\ task[t].result.origin = "cache"
    /\ task[t].result.store = RUNTIME_CACHE
    /\ task[t].netFetches = 0
    /\ task[u].wpc = "written"
    /\ task[u].req.url = task[t].req.url

(* C23: once a clear-cache message has been processed, its deletions done,
   cache storage holds no store, whatever fetch handlers were in flight when
   the message arrived. *)
C23_ClearedNoStore ==
  (message.data = "clearCache" /\ message.pc = "resolved") => Len(caches) = 0

(* C26: a message whose data is neither 'skipWaiting' nor 'clearCache' changes
   nothing: no store is created, deleted or modified, skipWaiting is not
   called and no deletion is started; 'skipWaiting' calls skipWaiting and
   leaves every store as it is. *)
C26_OtherMessagesNoEffect ==
  /\ [](message.pending # {} => message.data = "clearCache")
  /\ [][message'.count # message.count =>
         /\ message'.data \notin {"skipWaiting", "clearCache"} =>
              /\ caches' = caches
              /\ skipWaitingCalls' = skipWaitingCalls
              /\ message'.pc = message.pc
              /\ message'.pending = {}
              /\ UNCHANGED <<task, answered, install, activate, errorLog>>
         /\ message'.data = "skipWaiting" =>
              /\ caches' = caches
              /\ skipWaitingCalls' = skipWaitingCalls + 1
              /\ message'.pc = message.pc
              /\ message'.pending = {}
    ]_vars

C26_Witness ==
  /\ message.data = "ping"
  /\ message.count = 1
  /\ message.pc = "idle"
  /\ CacheHas(caches, CACHE_NAME)
  /\ CacheHas(caches, "wifi-portal-v4")

\* the entry the runtime store holds under key
RuntimeEntry(c, key) ==
  LET i == CHOOSE j \in 1..Len(c) : c[j].name = RUNTIME_CACHE
  IN  c[i].entries[key]

\* the handlers whose write of key into the runtime store has completed
Writers(key) ==
  { t \in Tasks : /\ task[t].wpc = "written"
                   /\ ~task[t].orphan
                   /\ task[t].req.url = key }

(* C24 as stated: when several handlers have written successful responses for
   one URL and no write for it is outstanding, the runtime store's entry for
   that URL is the response of the handler whose fetch resolved last. *)
C24_Original ==
  \A key \in StoreKeySet(caches, RUNTIME_CACHE) :
    ( /\ Cardinality(Writers(key)) >= 2
      /\ \A t \in Tasks : task[t].wpc \in {"open", "put"} => task[t].req.url # key ) =>
      \A t \in Writers(key) :
        (\A u \in Writers(key) : task[u].fetchRank <= task[t].fetchRank) =>
          RuntimeEntry(caches, key).tag = t

(* C24 amended: the runtime store holds one entry per URL and the last write
   wins: every completed put replaces the entry of its URL by the response of
   the handler that made it, nothing else changes an entry, and so after
   concurrent writes the entry is the response whose put completed last, which
   may be an older response than the one fetched last. *)
C24_LastWriteWins ==
  /\ [][\A t \in Tasks :
         (task[t].wpc = "put" /\ task'[t].wpc = "written" /\ ~task[t].orphan) =>
           /\ task[t].req.url \in StoreKeySet(caches', RUNTIME_CACHE)
           /\ RuntimeEntry(caches', task[t].req.url) =
                [task[t].result EXCEPT !.origin = "network"]
           /\ RuntimeEntry(caches', task[t].req.url).tag = t
    ]_vars
  /\ [][\A key \in StoreKeySet(caches', RUNTIME_CACHE) :
         ( \/ key \notin StoreKeySet(caches, RUNTIME_CACHE)
           \/ RuntimeEntry(caches', key) # RuntimeEntry(caches, key) ) =>
           \E t \in Tasks :
             /\ task[t].wpc = "put"
             /\ task'[t].wpc = "written"
             /\ task[t].req.url = key
    ]_vars

C24_Witness ==
  \E t, u \in Tasks :
    /\ task[t].wpc = "written"
    /\ task[u].wpc = "written"
    /\ task[t].req.url = task[u].req.url
    /\ task[t].fetchRank < task[u].fetchRank
    /\ RuntimeEntry(caches, task[t].req.url).tag = t

\* the stores of c other than the one called name, in creation order
StoresBut(c, name) == SelectSeq(c, LAMBDA st : st.name # name)

\* the store of c called name, as a sequence of at most one store
StoreNamed(c, name) == SelectSeq(c, LAMBDA st : st.name = name)

(* C27: handling a fetch event never creates or writes the static store: every
   step of a fetch handler leaves all stores but the runtime store of this
   version as they are; the static store changes only by being deleted by a
   clear-cache message, and once absent it stays absent while the worker only
   handles fetch events and messages. *)
C27_FetchWritesRuntimeOnly ==
  /\ [][task' # task =>
         \/ StoresBut(caches', RUNTIME_CACHE) = StoresBut(caches, RUNTIME_CACHE)
         \/ message' # message
    ]_vars
  /\ [][StoreNamed(caches', CACHE_NAME) # StoreNamed(caches, CACHE_NAME) =>
         /\ StoreNamed(caches', CACHE_NAME) = << >>
         /\ message.data = "clearCache"
         /\ CACHE_NAME \in message.pending
         /\ CACHE_NAME \notin message'.pending
    ]_vars

C27_Witness ==
  /\ message.data = "clearCache"
  /\ message.pc = "resolved"
  /\ ~CacheHas(caches, CACHE_NAME)
  /\ \E t \in Tasks :
       /\ task[t].wpc = "written"
       /\ ~task[t].orphan
       /\ task[t].req.url \in StoreKeySet(caches, RUNTIME_CACHE)

(* C25: the class a request is given depends on its method, URL and Accept
   header only: two fetch events carrying the same request get the same class
   whatever the stores hold and whatever the outcome of activation was when
   each is dispatched, and the class is the one the predicates give, which
   read nothing but the request. *)
C25_ClassificationPure ==
  /\ \A t, u \in Tasks :
       (Dispatched(t) /\ Dispatched(u) /\ task[t].req = task[u].req) =>
         /\ task[t].branch = task[u].branch
         /\ task[t].respondWith = task[u].respondWith
  /\ \A t \in Tasks :
       Dispatched(t) => task[t].branch = EarliestClass(task[t].req)

C25_Witness ==
  \E t, u \in Tasks :
    /\ Dispatched(t)
    /\ Dispatched(u)
    /\ task[t].req = task[u].req
    /\ task[t].branch = "html"
    /\ task[t].result.origin = "network"
    /\ task[t].wpc = "written"
    /\ task[u].branch = "html"
    /\ task[u].result.origin = "cache"
    /\ task[u].result.store = RUNTIME_CACHE
    /\ activate.pc = "resolved"

(* C28: the HTML and default handlers look into the caches only after their
   fetch has rejected: a fetch that resolves with a status other than 200 is
   answered with that response as it is, also when a store holds an entry for
   the request, and nothing is written. *)
C28_NetworkFirstNon200 ==
  /\ [](\A t \in Tasks :
         (task[t].branch \in {"html", "default"} /\ task[t].result.origin = "network") =>
           /\ task[t].cacheReads = 0
           /\ task[t].result.status # 200 =>
                (task[t].wpc = "none" /\ task[t].cacheWrites = 0))
  /\ [][\A t \in Tasks :
         ( /\ task[t].branch \in {"html", "default"}
           /\ task[t].pc = "fetch"
           /\ task'[t].pc = "done"
           /\ task'[t].result.status # 200 ) =>
           /\ IsVerbatim(task'[t].result, t)
           /\ task'[t].wpc = "none"
           /\ caches' = caches
    ]_vars

C28_Witness ==
  \E t \in Tasks :
    /\ task[t].branch = "html"
    /\ task[t].pc = "done"
    /\ task[t].result.origin = "network"
    /\ task[t].result.status = 404
    /\ task[t].req.url \in StoreKeySet(caches, RUNTIME_CACHE)

(* C29: every response a fetch handler returns from a cache was read from the
   static or the runtime store of this version; an entry held only by a store
   of another name is never served. *)
C29_ServedFromOwnStores ==
  \A t \in Tasks :
    (task[t].pc = "done" /\ task[t].result.origin = "cache") =>
      task[t].result.store \in {CACHE_NAME, RUNTIME_CACHE}

\* C30: once the activation of the new revision has completed and left only
\* its own two stores, no later step of a handler of the superseded revision
\* re-creates a store under another name
C30_StaleFreeStable ==
  [][(activate.pc = "resolved"
      /\ \A i \in 1..Len(caches) : caches[i].name \in {CACHE_NAME, RUNTIME_CACHE})
     => \A i \in 1..Len(caches') : caches'[i].name \in {CACHE_NAME, RUNTIME_CACHE}]_vars

(* C31: the runtime-store write of the static, HTML and default strategies is
   detached from the response: while the write is pending the handler has
   already delivered the network response, and no step of a pending write,
   a rejected open or put included, changes the response of any request. *)
C31_DeferredWriteDetached ==
  /\ [](\A t \in Tasks :
         task[t].wpc # "none" =>
           /\ task[t].branch \in {"static", "html", "default"}
           /\ task[t].pc = "done"
           /\ IsVerbatim(task[t].result, t))
  /\ [][\A t \in Tasks :
         (task[t].wpc \in {"open", "put"} /\ task'[t].wpc # task[t].wpc) =>
           \A u \in Tasks : /\ task'[u].pc = task[u].pc
                            /\ task'[u].result = task[u].result
    ]_vars

C31_Witness ==
  \E t, u \in Tasks :
    /\ t # u
    /\ task[t].wpc = "failed"
    /\ task[t].pc = "done"
    /\ task[t].result.status = 200
    /\ task[u].pc = "done"
    /\ task[u].req.url = task[t].req.url
    /\ task[u].fetchRank > task[t].fetchRank

(* C32: every GET request whose path begins with '/api/' is answered, when its
   network fetch rejects, with the JSON error envelope and status 503, whatever
   query parameters the URL carries. *)
C32_ApiPathGetsEnvelope ==
  \A t \in Tasks :
    (/\ Dispatched(t)
     /\ IsHttpGet(task[t].req)
     /\ isApiCall(task[t].req.url)
     /\ FetchFailed(t)) =>
      IsJsonEnvelope503(task[t].result)

(* C33: no GET request to an OS connectivity-probe host is answered with a
   status-200 response that did not come from the network, whatever its path
   and query parameters. *)
C33_ProbeHostNo200Substitute ==
  \A t \in Tasks :
    (/\ Dispatched(t)
     /\ IsHttpGet(task[t].req)
     /\ isCaptiveProbe(task[t].req.url)
     /\ task[t].pc = "done"
     /\ task[t].result.status = 200) =>
      task[t].result.origin = "network"

(* C34: in the v2 revision the handler of an HTML document whose fetch was
   rejected always resolves with a Response, never with undefined, also when
   neither the request nor '/index.html' is in any store. *)
C34_V2HtmlNeverUndefined ==
  \A t \in Tasks :
    (task[t].branch = "html" /\ task[t].pc = "done") => task[t].result # NoResponse

(* ------------------------------------ the build: generate-sw-assets.js *)
DoubleQuote == "\""
SingleQuote == "'"
Quotes == {DoubleQuote, SingleQuote}

AssetA == AssetsPrefix \o <<"a">>
AssetB == AssetsPrefix \o <<"b">>
AssetDollars == AssetsPrefix \o <<"$", "$">>

\* pieces of a built index.html: asset references in double and in single
\* quotes, one with '$$' in its name, one closed by the other quote, a quoted
\* reference outside /assets/, an asset path without quotes, and other text
Fragments ==
  { <<DoubleQuote>> \o AssetA \o <<DoubleQuote>>,
    <<SingleQuote>> \o AssetB \o <<SingleQuote>>,
    <<DoubleQuote>> \o AssetDollars \o <<DoubleQuote>>,
    <<DoubleQuote>> \o AssetB \o <<SingleQuote>>,
    <<DoubleQuote>> \o PathLogoIco \o <<DoubleQuote>>,
    AssetA,
    <<" ">> }

RECURSIVE Concat(_)
Concat(pieces) ==
  IF pieces = << >> THEN << >> ELSE Head(pieces) \o Concat(Tail(pieces))

IndexHtmls ==
  { Concat(pieces) : pieces \in UNION { [1..n -> Fragments] : n \in 0..MaxRefs } }

\* [^"']+ : the index after the longest run of characters other than quotes
\* that starts at j
RECURSIVE RunEnd(_, _)
RunEnd(str, j) ==
  IF j <= Len(str) /\ str[j] \notin Quotes THEN RunEnd(str, j + 1) ELSE j

\* /["'](\/assets\/[^"']+)["']/ matches at i
MatchAt(str, i) ==
  LET from == i + 1 + Len(AssetsPrefix)
      to == RunEnd(str, from)
  IN  /\ str[i] \in Quotes
      /\ i + Len(AssetsPrefix) <= Len(str)
      /\ SubSeq(str, i + 1, i + Len(AssetsPrefix)) = AssetsPrefix
      /\ to > from
      /\ to <= Len(str)

\* matchAll with the g flag: capture group 1 of every match, each search
\* starting behind the previous match
RECURSIVE MatchAll(_, _)
MatchAll(str, i) ==
  IF i > Len(str) THEN << >>
  ELSE IF MatchAt(str, i)
       THEN LET to == RunEnd(str, i + 1 + Len(AssetsPrefix))
            IN  <<SubSeq(str, i + 1, to - 1)>> \o MatchAll(str, to + 1)
       ELSE MatchAll(str, i + 1)

\* String.prototype.replace with a replacement string: '$$' in it stands for
\* one '$'
RECURSIVE ExpandDollars(_)
ExpandDollars(str) ==
  IF Len(str) < 2 THEN str
  ELSE IF str[1] = "$" /\ str[2] = "$"
       THEN <<"$">> \o ExpandDollars(SubSeq(str, 3, Len(str)))
       ELSE <<str[1]>> \o ExpandDollars(Tail(str))

\* sw.js as its top-level statements
Declaration(name, value) == [const |-> name, value |-> value]

SwAsShipped ==
  << Declaration("CACHE_NAME", CACHE_NAME),
     Declaration("RUNTIME_CACHE", RUNTIME_CACHE),
     Declaration("STATIC_ASSETS", <<PathRoot, PathIndexHtml>>),
     Declaration("isHotspotURL", "function") >>

\* sw.js of a dist directory the script has run on before
SwGenerated ==
  [SwAsShipped EXCEPT ![3] = Declaration("STATIC_ASSETS", <<PathRoot, PathIndexHtml, AssetB>>)]

\* swContent.replace(/const STATIC_ASSETS = \[[\s\S]*?\];/, `const
\* STATIC_ASSETS = ${JSON.stringify(assets, null, 2)};`): the first match only
ReplaceStaticAssets(content, assets) ==
  LET hits == { i \in 1..Len(content) : content[i].const = "STATIC_ASSETS" }
  IN  IF hits = {} THEN content
      ELSE LET first == CHOOSE i \in hits : \A j \in hits : i <= j
           IN  [content EXCEPT ![first] =
                 Declaration("STATIC_ASSETS",
                             [k \in 1..Len(assets) |-> ExpandDollars(assets[k])])]

\* readFileSync(indexHtmlPath), matchAll, assets.push(match[1])
GenExtract ==
  /\ gen.pc = "start"
  /\ gen' = [gen EXCEPT !.pc = "extracted",
                        !.assets = <<PathRoot, PathIndexHtml>> \o MatchAll(gen.indexHtml, 1)]
  /\ UNCHANGED <<worker, poll>>

\* readFileSync(swPath) and the replace
GenReplace ==
  /\ gen.pc = "extracted"
  /\ gen' = [gen EXCEPT !.pc = "replaced",
                        !.swContent = ReplaceStaticAssets(gen.swFile, gen.assets)]
  /\ UNCHANGED <<worker, poll>>

\* writeFileSync(swPath, swContent)
GenWrite ==
  /\ gen.pc = "replaced"
  /\ gen' = [gen EXCEPT !.pc = "written", !.swFile = gen.swContent]
  /\ UNCHANGED <<worker, poll>>

\* the script starts on a built dist directory
InitGen ==
  /\ caches = << >>
  /\ task = [t \in Tasks |-> IdleTask]
  /\ answered = {}
  /\ install = [pc |-> "idle", runs |-> 0, orphan |-> FALSE, skipWaiting |-> FALSE]
  /\ activate = [pc |-> "idle", pending |-> {}, logged |-> {}, claimed |-> FALSE]
  /\ message = [pc |-> "idle", pending |-> {}, count |-> 0, data |-> NoData]
  /\ skipWaitingCalls = 0
  /\ errorLog = 0
  /\ poll = IdlePoll
  /\ \E html \in IndexHtmls, sw \in {SwAsShipped, SwGenerated} :
       gen = [NoGen EXCEPT !.pc = "start", !.indexHtml = html, !.swFile = sw]

NextGen ==
  \/ GenExtract
  \/ GenReplace
  \/ GenWrite

SpecGen == InitGen /\ [][NextGen]_vars

TerminalStatuses == {"syncing", "success", "failed", "cancelled", "timeout", "error"}

\* a status query settles in this step
QuerySettles == poll'.inFlight < poll.inFlight

(* C35 as stated: polling is over by the 60th timer tick at the latest, so no
   61st tick occurs. *)
C35_Original == poll.currentPollCount <= maxPolls

(* C35: M-Pesa status polling always terminates. The interval is eventually
   cleared; when it is cleared without a reset, paymentStatus is terminal;
   every query that settles at or after the 60th tick clears the interval and
   leaves a terminal status; the timer ticks beyond 60 only while the query
   issued at the 60th tick and those after it are all still unsettled. *)
C35_PollingTerminates ==
  /\ []((~poll.pollingIntervalRef /\ ~poll.reset) =>
          poll.paymentStatus \in TerminalStatuses)
  /\ []((poll.pollingIntervalRef /\ poll.currentPollCount > maxPolls) =>
          poll.inFlight >= poll.currentPollCount - maxPolls + 1)
  /\ [][(QuerySettles /\ poll.currentPollCount >= maxPolls) =>
          (~poll'.pollingIntervalRef /\ poll'.paymentStatus \in TerminalStatuses)]_vars
  /\ <>(~poll.pollingIntervalRef)

C35_Witness ==
  /\ ~poll.pollingIntervalRef
  /\ ~poll.reset
  /\ poll.paymentStatus = "timeout"
  /\ poll.currentPollCount > maxPolls

(* C36: once the interval is cleared, by resetFlow or by a terminal status, a
   status query that settles afterwards changes neither paymentStatus nor
   the number of auto-login runs. *)
C36_ClearedPollingHasNoEffect ==
  [][(~poll.pollingIntervalRef /\ QuerySettles) =>
       /\ poll'.paymentStatus = poll.paymentStatus
       /\ poll'.message = poll.message
       /\ poll'.autoLogin = poll.autoLogin]_vars

\* the STATIC_ASSETS array of a sw.js
StaticAssetsOf(content) ==
  LET i == CHOOSE j \in 1..Len(content) : content[j].const = "STATIC_ASSETS"
  IN  content[i].value

(* C37: the manifest the generator writes into sw.js in place of STATIC_ASSETS
   is '/', '/index.html' followed by every quoted '/assets/...' reference of
   index.html in order of occurrence, and it contains no URL twice. *)
C37_ManifestExact ==
  gen.pc = "written" =>
    LET manifest == StaticAssetsOf(gen.swFile)
    IN  /\ manifest = <<PathRoot, PathIndexHtml>> \o MatchAll(gen.indexHtml, 1)
        /\ \A i, j \in 1..Len(manifest) : manifest[i] = manifest[j] => i = j

====
